---- MODULE Spec2Model ----
(***************************************************************************)
(* web-stroker browser-automation scripts.                                 *)
(*                                                                         *)
(* Each of the five scripts is a straight-line Python program that drives  *)
(* a page through the Playwright sync API.  A script is modelled as its    *)
(* statement table (one record per statement, carrying the source line),   *)
(* and the actions below execute one statement each.  The page is the      *)
(* environment: what a lookup finds is chosen nondeterministically at the  *)
(* statement that asks.                                                    *)
(*                                                                         *)
(* Playwright / Python semantics the statements rely on:                   *)
(*  - a Locator object (page.locator(..), .first) is always truthy;        *)
(*  - locator.click(), page.click(sel), locator.text_content() and         *)
(*    locator.bounding_box() wait for a matching element and raise         *)
(*    (TimeoutError, or a strict-mode Error when a locator without .first  *)
(*    matches several elements) when they cannot act;                      *)
(*  - locator.bounding_box() returns None for an element that is not       *)
(*    visible; locator.count() and locator.all() never raise;              *)
(*  - Mouse.click(x, y, *, button=..) has two required positional          *)
(*    parameters, so page.mouse.click() raises TypeError;                  *)
(*  - an exception that leaves the `with sync_playwright()` block stops    *)
(*    the driver (the browser process dies) and ends the script.           *)
(* time.sleep / wait_for_timeout / wait_for_load_state /                   *)
(* set_viewport_size carry no state and are folded into the statement      *)
(* they follow.                                                            *)
(***************************************************************************)
EXTENDS Integers, Sequences, FiniteSets

\* ---------------------------------------------------------------- bounds
\* most buttons the page may hold (above ButtonLimit, so the slice truncates)
MaxButtons == 21
\* most buttons whose read fails during one inspect_page run
MaxErr == 2
\* most elements one text/attribute selector may match
MaxMatch == 2

\* buttons[:20]
ButtonLimit == 20
\* if angle_val <= 90
AcuteLimit == 90

\* bounding boxes the canvas may have (even sizes: width / 2 is exact)
CanvasBoxes ==
  { [x |-> 0,   y |-> 0,  width |-> 1400, height |-> 900],
    [x |-> 240, y |-> 60, width |-> 1000, height |-> 700] }

\* angle labels the page may show (text_content of the element matching
\* /\d+\.\d+deg/): the text before the number, and the number in tenths
AngleLabels ==
  { [prefix |-> "", tenths |-> 450],
    [prefix |-> "", tenths |-> 1205],
    [prefix |-> "Angle: ", tenths |-> 450] }

NoLabel == [prefix |-> "", tenths |-> 0 - 1]

Scripts ==
  { "inspect_page", "qa_test_angle", "test_angle_measurement",
    "test_angle_qa", "test_angle_simple" }

\* ------------------------------------------------------ statement records
Ins(line, op, a, role, base, dx, dy, els) ==
  [ line |-> line, op |-> op, a |-> a, role |-> role,
    base |-> base, dx |-> dx, dy |-> dy, els |-> els ]

\* a statement without coordinates or branch target
S(line, op, a) == Ins(line, op, a, "", "none", 0, 0, 0)

\* a branch: falls through into the block, or continues at line els
B(line, op, els) == Ins(line, op, "", "", "none", 0, 0, els)

\* a pointer statement at base + (dx, dy); role names what the source
\* comment says the statement is for
M(line, op, a, role, base, dx, dy) == Ins(line, op, a, role, base, dx, dy, 0)

\* -------------------------------------------------------- inspect_page.py
inspect_page_open ==
  << S(8,  "launch", "headless"),
     S(12, "goto", "http://localhost:5173"),
     S(15, "print", "=== Page Structure ==="),
     S(16, "content", ""),
     S(16, "print", "page.content()[:2000]"),
     S(18, "print", "=== Buttons on page ===") >>

\* variant of inspect_page_loop whose except handler leaves the loop
inspect_page_loop_break ==
  << S(19, "locator", "button"),
     S(19, "all", "button"),
     B(20, "for_buttons", 28),
     B(22, "text_content", 26),
     B(23, "get_attribute", 26),
     S(24, "print_button", "text"),
     B(24, "next_iter", 20),
     S(26, "print_button", "(error reading)"),
     B(26, "jump", 28) >>

inspect_page_loop ==
  << S(19, "locator", "button"),
     S(19, "all", "button"),
     B(20, "for_buttons", 28),
     B(22, "text_content", 26),
     B(23, "get_attribute", 26),
     S(24, "print_button", "text"),
     B(24, "next_iter", 20),
     S(26, "print_button", "(error reading)"),
     B(26, "next_iter", 20) >>

inspect_page_close ==
  << S(28, "close", "final"),
     S(28, "end", "") >>

inspect_page_code == inspect_page_open \o inspect_page_loop \o inspect_page_close

\* -------------------------------------------------------- qa_test_angle.py
qa_test_angle_open ==
  << S(5,  "launch", "headless"),
     S(9,  "goto", "http://localhost:5176"),
     S(13, "screenshot", "angle_test_1_initial") >>

qa_test_angle_tools ==
  << S(16, "print", "Step 1"),
     S(17, "locator", "Digital"),
     B(18, "if_locator", 23),
     S(19, "tool_click", "Digital"),
     S(23, "print", "Step 2"),
     S(24, "locator", "Line"),
     B(25, "if_locator", 30),
     S(26, "tool_click", "Line") >>

qa_test_angle_draw ==
  << S(30, "print", "Step 3"),
     S(31, "locator", "canvas"),
     B(32, "if_locator", 50),
     S(34, "bounding_box", "first"),
     B(35, "if_box", 50),
     M(40, "mouse_move", "", "draw1", "box", 100, 200),
     M(41, "mouse_down", "", "draw1", "box", 100, 200),
     M(42, "mouse_move", "", "draw1", "box", 300, 200),
     M(43, "mouse_up",   "", "draw1", "box", 300, 200),
     M(47, "mouse_click", "right", "close1", "box", 100, 200),
     S(50, "screenshot", "angle_test_2_first_line"),
     S(53, "print", "Step 4"),
     B(54, "if_locator", 71),
     S(55, "bounding_box", "first"),
     B(56, "if_box", 71),
     M(61, "mouse_move", "", "draw2", "box", 200, 100),
     M(62, "mouse_down", "", "draw2", "box", 200, 100),
     M(63, "mouse_move", "", "draw2", "box", 200, 300),
     M(64, "mouse_up",   "", "draw2", "box", 200, 300),
     M(68, "mouse_click", "right", "close2", "box", 200, 100),
     S(71, "screenshot", "angle_test_3_second_line") >>

qa_test_angle_measure ==
  << S(74, "print", "Step 5"),
     S(77, "locator", "Measure"),
     S(78, "count", "Measure"),
     B(78, "if_n", 83),
     S(79, "tool_click", "Measure"),
     S(83, "locator", "Angle"),
     S(84, "count", "Angle"),
     B(84, "if_n", 88),
     S(85, "tool_click", "Angle"),
     S(88, "screenshot", "angle_test_4_angle_tool") >>

qa_test_angle_select ==
  << S(91, "print", "Step 6"),
     B(92, "if_locator", 100),
     S(93, "bounding_box", "first"),
     B(94, "if_box", 100),
     M(97, "mouse_click", "left", "select1", "box", 200, 200),
     S(100, "screenshot", "angle_test_5_first_selected"),
     S(103, "print", "Step 7"),
     B(104, "if_locator", 112),
     S(105, "bounding_box", "first"),
     B(106, "if_box", 112),
     M(109, "mouse_click", "left", "select2", "box", 200, 200),
     S(112, "screenshot", "angle_test_6_angle_measured") >>

qa_test_angle_chain ==
  << S(115, "print", "Step 8"),
     B(116, "if_locator", 123),
     S(117, "bounding_box", "first"),
     B(118, "if_box", 123),
     M(120, "mouse_click", "right", "cancel", "box", 250, 250),
     S(123, "screenshot", "angle_test_7_after_rightclick"),
     S(126, "print", "Step 9"),
     B(127, "if_locator", 134),
     S(128, "bounding_box", "first"),
     B(129, "if_box", 134),
     M(131, "mouse_click", "left", "chain", "box", 200, 200),
     S(134, "screenshot", "angle_test_8_chaining") >>

qa_test_angle_close ==
  << S(137, "print", "Step 10"),
     S(138, "evaluate", "window.__consoleLogs"),
     S(139, "print", "Console logs"),
     S(141, "print", "QA Testing Complete!"),
     S(142, "print", "Screenshots saved to /tmp/"),
     S(144, "close", "final"),
     S(144, "end", "") >>

qa_test_angle_code ==
  qa_test_angle_open \o qa_test_angle_tools \o qa_test_angle_draw
    \o qa_test_angle_measure \o qa_test_angle_select \o qa_test_angle_chain
    \o qa_test_angle_close

\* ----------------------------------------------- test_angle_measurement.py
tam_open ==
  << S(17, "launch", "headed"),
     S(19, "goto", "http://localhost:5173"),
     S(22, "print", "Page loaded") >>

tam_canvas ==
  << S(25, "locator", "canvas"),
     S(26, "bounding_box", "strict"),
     B(28, "if_not_box", 33),
     S(29, "print", "Canvas not found"),
     S(30, "close", "early"),
     B(31, "return_False", 119),
     S(33, "print", "Canvas found") >>

tam_tools ==
  << S(37, "tool_click", "Digital"),
     S(41, "tool_click", "Line") >>

tam_draw ==
  << M(49, "mouse_click", "left", "draw1", "center", 0 - 100, 0),
     M(51, "mouse_click", "left", "draw1", "center", 100, 0),
     M(53, "mouse_click", "left", "draw1", "center", 0 - 100, 0),
     M(57, "mouse_click", "left", "draw2", "center", 0, 0 - 100),
     M(59, "mouse_click", "left", "draw2", "center", 0, 100),
     M(61, "mouse_click", "left", "draw2", "center", 0, 0 - 100),
     S(64, "print", "Lines drawn") >>

\* variant of tam_measure whose else branch only prints (no close, no return)
tam_measure_noreturn ==
  << S(68, "tool_click", "Measure"),
     S(72, "locator", "Angle"),
     S(73, "count", "Angle"),
     B(73, "if_n", 78),
     S(74, "tool_click", "Angle"),
     S(76, "print", "Angle tool selected"),
     B(77, "jump", 83),
     S(78, "print", "Angle tool button not found") >>

tam_measure ==
  << S(68, "tool_click", "Measure"),
     S(72, "locator", "Angle"),
     S(73, "count", "Angle"),
     B(73, "if_n", 78),
     S(74, "tool_click", "Angle"),
     S(76, "print", "Angle tool selected"),
     B(77, "jump", 83),
     S(78, "print", "Angle tool button not found"),
     S(79, "close", "early"),
     B(80, "return_False", 119) >>

\* variant of tam_select that takes no screenshot
tam_select_noshots ==
  << M(86, "mouse_click", "left", "select1", "center", 0 - 50, 0),
     M(93, "mouse_click", "left", "select2", "center", 0, 0 - 50),
     S(99, "print", "Screenshots taken") >>

tam_select ==
  << S(83, "screenshot", "before_angle"),
     M(86, "mouse_click", "left", "select1", "center", 0 - 50, 0),
     S(90, "screenshot", "after_first_click"),
     M(93, "mouse_click", "left", "select2", "center", 0, 0 - 50),
     S(97, "screenshot", "after_second_click"),
     S(99, "print", "Screenshots taken") >>

tam_verify ==
  << S(106, "content", "content"),
     B(108, "if_content", 111),
     S(109, "print", "Angle measurement appears to be displayed"),
     B(110, "jump", 113),
     S(111, "print", "Angle measurement text not clearly visible in content"),
     S(113, "close", "final"),
     B(114, "return_True", 119) >>

tam_main ==
  << B(119, "if_ret", 122),
     S(120, "print", "Test completed successfully"),
     B(121, "jump", 123),
     S(122, "print", "Test failed"),
     S(123, "end", "") >>

\* variant of test_angle_measurement_code that draws before selecting Digital/Line
tam_code_draw_first ==
  tam_open \o tam_canvas \o tam_draw \o tam_tools \o tam_measure
    \o tam_select \o tam_verify \o tam_main

test_angle_measurement_code ==
  tam_open \o tam_canvas \o tam_tools \o tam_draw \o tam_measure
    \o tam_select \o tam_verify \o tam_main

\* ------------------------------------------------------- test_angle_qa.py
take_screenshot(name) ==
  << S(18, "screenshot", name),
     S(19, "print", "Screenshot saved") >>

\* returns the centre dict when the box is truthy and None otherwise:
\* the caller's canvas_info is falsy exactly when locals.box is
find_canvas_center ==
  << S(24, "locator", "canvas"),
     S(25, "bounding_box", "first") >>

\* variant of draw_line that never releases the button
draw_line_noup(role, x1, y1, x2, y2) ==
  << M(39, "mouse_move", "", role, "center", x1, y1),
     M(40, "mouse_down", "", role, "center", x1, y1),
     M(44, "mouse_move", "", role, "center", x2, y2) >>

draw_line(role, x1, y1, x2, y2) ==
  << M(39, "mouse_move", "", role, "center", x1, y1),
     M(40, "mouse_down", "", role, "center", x1, y1),
     M(44, "mouse_move", "", role, "center", x2, y2),
     M(48, "mouse_up",   "", role, "center", x2, y2) >>

taq_open ==
  << S(55, "launch", "headed"),
     S(62, "goto", "http://localhost:5173"),
     S(65, "print", "=== Test 1: Intersecting Segments - Arc follows mouse ===") >>

taq_canvas ==
  find_canvas_center \o
  << B(69, "if_not_box", 77),
     S(70, "print", "ERROR: Could not find canvas"),
     S(71, "close", "early"),
     B(72, "return_None", 0) >>

taq_tools ==
  << S(77, "print", "Switching to measure tool..."),
     S(78, "tool_click", "Measure"),
     S(82, "print", "Selecting angle measurement..."),
     S(83, "tool_click", "Angle") >>

taq_test1 ==
  << S(87, "print", "Drawing first line (vertical-ish)...") >>
  \o draw_line("draw1", 0 - 100, 0 - 150, 0 - 100, 150)
  \o take_screenshot("01_first_line")
  \o << S(92, "print", "Drawing second line (crossing first)...") >>
  \o draw_line("draw2", 0 - 200, 0, 200, 0)
  \o take_screenshot("02_two_lines")
  \o << S(98, "print", "Testing arc appears on mouse side..."),
        S(99, "print", "Moving mouse to LEFT side of intersection..."),
        M(100, "mouse_move", "", "probe", "center", 0 - 150, 0) >>
  \o take_screenshot("03_arc_on_left")
  \o << S(104, "print", "Moving mouse to RIGHT side of intersection..."),
        M(105, "mouse_move", "", "probe", "center", 150, 0) >>
  \o take_screenshot("04_arc_on_right")
  \o << S(109, "print", "Moving mouse ABOVE intersection..."),
        M(110, "mouse_move", "", "probe", "center", 0 - 100, 0 - 100) >>
  \o take_screenshot("05_arc_above")
  \o << S(114, "print", "Moving mouse BELOW intersection..."),
        M(115, "mouse_move", "", "probe", "center", 0 - 100, 100) >>
  \o take_screenshot("06_arc_below")

taq_test2 ==
  << S(119, "print", "=== Test 2: Arc selection by clicking ==="),
     S(120, "print", "Clicking on left side to select second line..."),
     M(121, "mouse_move", "", "select", "center", 0 - 150, 0),
     M(123, "mouse_click_noargs", "left", "select", "none", 0, 0) >>
  \o take_screenshot("07_selected_left")

taq_label ==
  << S(128, "print", "Checking for angle label..."),
     S(129, "locator", "angle label"),
     B(130, "if_locator", 140),
     S(131, "text_content", ""),
     S(131, "print", "Found angle label"),
     S(133, "text_content", ""),
     S(134, "float", ""),
     B(135, "if_le_90", 138),
     S(136, "print", "Acute angle"),
     B(137, "jump", 142),
     S(138, "print", "NOT acute"),
     B(139, "jump", 142),
     S(140, "print", "No angle label found") >>

taq_test3 ==
  << S(142, "print", "=== Test 3: Line Chaining ==="),
     S(143, "print", "Drawing third line for chaining test...") >>
  \o draw_line("draw3", 0, 0 - 200, 0, 200)
  \o take_screenshot("08_after_third_line")
  \o << S(148, "print", "All tests completed!"),
        S(150, "close", "final"),
        B(150, "return_None", 0) >>

test_angle_qa_code ==
  taq_open \o taq_canvas \o taq_tools \o taq_test1 \o taq_test2
    \o taq_label \o taq_test3

\* --------------------------------------------------- test_angle_simple.py
tas_open ==
  << S(12, "launch", "headed"),
     S(16, "goto", "http://localhost:5173"),
     S(19, "print", "Page loaded") >>

tas_tools ==
  << S(23, "locator", "button"),
     S(23, "all", "button"),
     S(24, "print", "Found buttons"),
     S(27, "locator", "Measure"),
     B(28, "if_locator", 36),
     S(29, "print", "Found Measure button"),
     S(30, "tool_click", "Measure"),
     S(36, "locator", "button"),
     S(36, "all", "button"),
     S(37, "print", "After clicking Measure"),
     S(40, "locator", "Angle"),
     S(40, "all", "Angle"),
     S(41, "print", "Found angle buttons"),
     B(42, "if_n", 48),
     S(43, "tool_click", "Angle"),
     S(44, "print", "Clicked angle button"),
     S(48, "screenshot", "after_angle_select"),
     S(49, "print", "Screenshot saved") >>

tas_draw ==
  << S(52, "locator", "canvas"),
     S(53, "bounding_box", "first"),
     B(55, "if_box", 91),
     S(59, "print", "Canvas center"),
     S(62, "print", "Drawing first line..."),
     M(63, "mouse_move", "", "draw1", "center", 0 - 100, 0 - 150),
     M(64, "mouse_down", "", "draw1", "center", 0 - 100, 0 - 150),
     M(65, "mouse_move", "", "draw1", "center", 0 - 100, 150),
     M(66, "mouse_up",   "", "draw1", "center", 0 - 100, 150),
     S(69, "screenshot", "first_line"),
     S(72, "print", "Drawing second line..."),
     M(73, "mouse_move", "", "draw2", "center", 0 - 200, 0),
     M(74, "mouse_down", "", "draw2", "center", 0 - 200, 0),
     M(75, "mouse_move", "", "draw2", "center", 200, 0),
     M(76, "mouse_up",   "", "draw2", "center", 200, 0),
     S(79, "screenshot", "second_line") >>

tas_probe ==
  << S(82, "print", "Testing arc movement..."),
     M(83, "mouse_move", "", "probe", "center", 0 - 150, 0),
     S(85, "screenshot", "arc_left"),
     M(87, "mouse_move", "", "probe", "center", 150, 0),
     S(89, "screenshot", "arc_right") >>

tas_close ==
  << S(91, "print", "Test complete!"),
     S(93, "close", "final"),
     B(93, "return_None", 0) >>

test_angle_simple_code == tas_open \o tas_tools \o tas_draw \o tas_probe \o tas_close

Program(s) ==
  CASE s = "inspect_page" -> inspect_page_code
    [] s = "qa_test_angle" -> qa_test_angle_code
    [] s = "test_angle_measurement" -> test_angle_measurement_code
    [] s = "test_angle_qa" -> test_angle_qa_code
    [] s = "test_angle_simple" -> test_angle_simple_code

\* ------------------------------------------------------------------ state
VARIABLES
  script,   \* which of the five scripts runs
  pc,       \* index of the next statement in Program(script)
  status,   \* "running", "exited" (ran to its end) or "crashed" (exception)
  browser,  \* "none", "open", "closed" (browser.close()) or "killed"
  log,      \* the calls issued so far, in order
  locals,   \* the script's variables that decide its branches
  env,      \* the canvas bounding box the page reports when visible
  ret       \* the test function's return value

vars == << script, pc, status, browser, log, locals, env, ret >>

\* what page.content() may hold, as far as line 108 of
\* test_angle_measurement.py can tell
ContentKinds ==
  { [angle |-> FALSE, degree |-> FALSE], [angle |-> TRUE, degree |-> FALSE],
    [angle |-> FALSE, degree |-> TRUE],  [angle |-> TRUE, degree |-> TRUE] }

Init ==
  /\ script \in Scripts
  /\ env \in CanvasBoxes
  /\ pc = 1
  /\ status = "running"
  /\ browser = "none"
  /\ log = << >>
  /\ locals = [ box |-> "unset", n |-> 0 - 1, i |-> 0, label |-> NoLabel,
                content |-> [angle |-> FALSE, degree |-> FALSE] ]
  /\ ret = "unset"

Prog == Program(script)

Cur == Prog[pc]

At(ops) == status = "running" /\ pc \in 1..Len(Prog) /\ Cur.op \in ops

\* the first statement of the program at or after source line `line`
TargetIdx(prog, line) ==
  CHOOSE i \in 1..Len(prog) :
    /\ prog[i].line >= line
    /\ \A j \in 1..(i - 1) : prog[j].line < line

Min(a, b) == IF a <= b THEN a ELSE b

\* box["x"] + dx, or box["x"] + box["width"] / 2 + dx
PosX(ins) ==
  CASE ins.base = "box" -> env.x + ins.dx
    [] ins.base = "center" -> env.x + env.width \div 2 + ins.dx
    [] OTHER -> ins.dx

PosY(ins) ==
  CASE ins.base = "box" -> env.y + ins.dy
    [] ins.base = "center" -> env.y + env.height \div 2 + ins.dy
    [] OTHER -> ins.dy

Event(ins, k, a, x, y) ==
  [ k |-> k, a |-> a, role |-> ins.role, x |-> x, y |-> y, line |-> ins.line ]

Emit(k, a) == log' = Append(log, Event(Cur, k, a, 0, 0))

EmitAt(k, a) == log' = Append(log, Event(Cur, k, a, PosX(Cur), PosY(Cur)))

Step == pc' = pc + 1

\* an exception nothing catches: it leaves the `with sync_playwright()` block
Crash(exc) ==
  /\ status' = "crashed"
  /\ browser' = "killed"
  /\ Emit("raise", exc)
  /\ UNCHANGED << script, pc, locals, env, ret >>

\* reads that failed in inspect_page's try block so far
ErrCount(l) == Cardinality({ j \in 1..Len(l) : l[j].k = "caught" })

\* ---------------------------------------------------------------- actions
\* p.chromium.launch(..); browser.new_page()
Launch ==
  /\ At({"launch"})
  /\ browser' = "open"
  /\ Emit("launch", Cur.a)
  /\ Step
  /\ UNCHANGED << script, status, locals, env, ret >>

\* page.goto(url); page.wait_for_load_state("networkidle")
Navigate ==
  /\ At({"goto"})
  /\ Emit("goto", Cur.a)
  /\ Step
  /\ UNCHANGED << script, status, browser, locals, env, ret >>

\* page.locator(selector): builds a Locator, does not touch the page
Locate ==
  /\ At({"locator"})
  /\ Emit("locate", Cur.a)
  /\ Step
  /\ UNCHANGED << script, status, browser, locals, env, ret >>

\* locator.bounding_box(): the box, None (not visible), or an exception
BoundingBox ==
  /\ At({"bounding_box"})
  /\ \E r \in {"box", "none", "raise"} :
       IF r = "raise"
       THEN Crash("TimeoutError")
       ELSE /\ locals' = [locals EXCEPT !.box = r]
            /\ Emit("query", r)
            /\ Step
            /\ UNCHANGED << script, status, browser, env, ret >>

\* locator.count() / len(locator.all())
Count ==
  /\ At({"count", "all"})
  /\ \E n \in 0..(IF Cur.a = "button" THEN MaxButtons ELSE MaxMatch) :
       /\ locals' = [locals EXCEPT !.n = n]
       /\ Emit("query", IF n = 0 THEN "zero" ELSE "some")
  /\ Step
  /\ UNCHANGED << script, status, browser, env, ret >>

\* page.content() / page.evaluate(..)
Content ==
  /\ At({"content", "evaluate"})
  /\ \E c \in ContentKinds :
       locals' = IF Cur.a = "content" THEN [locals EXCEPT !.content = c] ELSE locals
  /\ Emit("query", Cur.op)
  /\ Step
  /\ UNCHANGED << script, status, browser, env, ret >>

\* btn.text_content(), btn.get_attribute(..), float(angle_str.replace(..)):
\* inside a try block (els # 0) an exception continues at the handler
ReadValue ==
  /\ At({"text_content", "get_attribute", "float"})
  /\ IF Cur.op = "float"
     THEN IF locals.label.prefix # ""
          THEN Crash("ValueError")
          ELSE /\ Step
               /\ UNCHANGED << script, status, browser, log, locals, env, ret >>
     ELSE \E r \in {"ok", "raise"} :
            IF r = "ok"
            THEN /\ \E t \in AngleLabels :
                      locals' = IF Cur.els = 0
                                THEN [locals EXCEPT !.label = t]
                                ELSE locals
                 /\ Step
                 /\ UNCHANGED << script, status, browser, log, env, ret >>
            ELSE IF Cur.els = 0
                 THEN Crash("TimeoutError")
                 ELSE /\ ErrCount(log) < MaxErr
                      /\ pc' = TargetIdx(Prog, Cur.els)
                      /\ log' = Append(log,
                           Event(Prog[TargetIdx(Prog, Cur.els)], "caught", "", 0, 0))
                      /\ UNCHANGED << script, status, browser, locals, env, ret >>

\* whether the branch statement falls through into its block
Taken(ins) ==
  CASE ins.op = "if_locator" -> TRUE
    [] ins.op = "if_box" -> locals.box = "box"
    [] ins.op = "if_not_box" -> locals.box # "box"
    [] ins.op = "if_n" -> locals.n > 0
    [] ins.op = "if_content" -> locals.content.angle \/ locals.content.degree
    [] ins.op = "if_le_90" -> locals.label.tenths <= AcuteLimit * 10
    [] ins.op = "if_ret" -> ret = "True"
    [] ins.op = "for_buttons" -> locals.i < Min(locals.n, ButtonLimit)
    [] OTHER -> FALSE

\* if / else / for / end of a loop body
Branch ==
  /\ At({"if_locator", "if_box", "if_not_box", "if_n", "if_content", "if_le_90",
         "if_ret", "for_buttons", "next_iter", "jump"})
  /\ pc' = IF Taken(Cur) THEN pc + 1 ELSE TargetIdx(Prog, Cur.els)
  /\ locals' = IF Cur.op = "next_iter" THEN [locals EXCEPT !.i = @ + 1] ELSE locals
  /\ UNCHANGED << script, status, browser, log, env, ret >>

\* locator.click() / page.click(selector) on a tool button
ToolClick ==
  /\ At({"tool_click"})
  /\ \E r \in {"ok", "raise"} :
       IF r = "raise"
       THEN Crash("TimeoutError")
       ELSE /\ Emit("tool", Cur.a)
            /\ Step
            /\ UNCHANGED << script, status, browser, locals, env, ret >>

MouseMove ==
  /\ At({"mouse_move"})
  /\ EmitAt("move", "")
  /\ Step
  /\ UNCHANGED << script, status, browser, locals, env, ret >>

MouseDown ==
  /\ At({"mouse_down"})
  /\ EmitAt("down", "")
  /\ Step
  /\ UNCHANGED << script, status, browser, locals, env, ret >>

MouseUp ==
  /\ At({"mouse_up"})
  /\ EmitAt("up", "")
  /\ Step
  /\ UNCHANGED << script, status, browser, locals, env, ret >>

\* page.mouse.click(x, y, button=..); without x and y the call itself fails
MouseClick ==
  /\ At({"mouse_click", "mouse_click_noargs"})
  /\ IF Cur.op = "mouse_click_noargs"
     THEN Crash("TypeError")
     ELSE /\ EmitAt("click", Cur.a)
          /\ Step
          /\ UNCHANGED << script, status, browser, locals, env, ret >>

Screenshot ==
  /\ At({"screenshot"})
  /\ Emit("shot", Cur.a)
  /\ Step
  /\ UNCHANGED << script, status, browser, locals, env, ret >>

\* print(..); the per-button lines of inspect_page carry the index
PrintLine ==
  /\ At({"print", "print_button"})
  /\ log' = Append(log, Event(Cur, "print", Cur.a,
                              IF Cur.op = "print_button" THEN locals.i ELSE 0, 0))
  /\ Step
  /\ UNCHANGED << script, status, browser, locals, env, ret >>

Close ==
  /\ At({"close"})
  /\ browser' = "closed"
  /\ Emit("close", Cur.a)
  /\ Step
  /\ UNCHANGED << script, status, locals, env, ret >>

\* return from the test function (to line els of __main__, if any), or the
\* end of the script
Return ==
  /\ At({"return_True", "return_False", "return_None", "end"})
  /\ ret' = CASE Cur.op = "return_True" -> "True"
              [] Cur.op = "return_False" -> "False"
              [] Cur.op = "return_None" -> "None"
              [] OTHER -> ret
  /\ IF Cur.op = "end" \/ Cur.els = 0
     THEN status' = "exited" /\ pc' = pc
     ELSE status' = status /\ pc' = TargetIdx(Prog, Cur.els)
  /\ Emit(IF Cur.op = "end" THEN "exit" ELSE "return", Cur.op)
  /\ UNCHANGED << script, browser, locals, env >>

Next ==
  \/ Launch
  \/ Navigate
  \/ Locate
  \/ BoundingBox
  \/ Count
  \/ Content
  \/ ReadValue
  \/ Branch
  \/ ToolClick
  \/ MouseMove
  \/ MouseDown
  \/ MouseUp
  \/ MouseClick
  \/ Screenshot
  \/ PrintLine
  \/ Close
  \/ Return

Spec == Init /\ [][Next]_vars

\* ------------------------------------------------------- reading the log
Ended == status \in {"exited", "crashed"}

PointerKinds == {"move", "down", "up", "click"}

\* pointer down/move/up or click events, tool-button clicks included
InputKinds == PointerKinds \cup {"tool"}

DrawRoles == {"draw1", "draw2", "draw3", "close1", "close2"}

SelectRoles == {"select1", "select2", "select", "chain", "probe"}

Where(l, kinds) == { j \in 1..Len(l) : l[j].k \in kinds }

ToolAt(l, name) == { j \in 1..Len(l) : l[j].k = "tool" /\ l[j].a = name }

RoleAt(l, roles) == { j \in 1..Len(l) : l[j].k \in PointerKinds /\ l[j].role \in roles }

\* the first index after `from` whose event kind is in `kinds`; Len(l) + 1 if none
FirstAfter(l, kinds, from) ==
  IF \E j \in (from + 1)..Len(l) : l[j].k \in kinds
  THEN CHOOSE j \in (from + 1)..Len(l) :
         /\ l[j].k \in kinds
         /\ \A h \in (from + 1)..(j - 1) : l[h].k \notin kinds
  ELSE Len(l) + 1

\* launch, navigate, locate, pointer/click, screenshot in this order; the
\* index of the screenshot (beyond Len(l) if the chain breaks)
FiveSteps(l) ==
  FirstAfter(l, {"shot"},
    FirstAfter(l, InputKinds,
      FirstAfter(l, {"locate"},
        FirstAfter(l, {"goto"},
          FirstAfter(l, {"launch"}, 0)))))

SixSteps(l) == FirstAfter(l, {"close"}, FiveSteps(l)) <= Len(l)

FinalClose(l) == \E j \in 1..Len(l) : l[j].k = "close" /\ l[j].a = "final"

\* outstanding mouse.down calls
Held(l) == Cardinality(Where(l, {"down"})) - Cardinality(Where(l, {"up"}))

AllBut(l) == SubSeq(l, 1, Len(l) - 1)

\* the segment drawn with role r: from the mouse.down to the mouse.up point
HasSeg(l, r) ==
  /\ \E j \in 1..Len(l) : l[j].k = "down" /\ l[j].role = r
  /\ \E j \in 1..Len(l) : l[j].k = "up" /\ l[j].role = r

Seg(l, r) ==
  LET d == l[CHOOSE j \in 1..Len(l) : l[j].k = "down" /\ l[j].role = r]
      u == l[CHOOSE j \in 1..Len(l) : l[j].k = "up" /\ l[j].role = r]
  IN  [ax |-> d.x, ay |-> d.y, bx |-> u.x, by |-> u.y]

Cross(ux, uy, vx, vy) == ux * vy - uy * vx

Between(p, a, b) == (a <= p /\ p <= b) \/ (b <= p /\ p <= a)

\* the point (px, py) lies on segment sg
OnSeg(px, py, sg) ==
  /\ Cross(sg.bx - sg.ax, sg.by - sg.ay, px - sg.ax, py - sg.ay) = 0
  /\ Between(px, sg.ax, sg.bx)
  /\ Between(py, sg.ay, sg.by)

Parallel(s1, s2) ==
  Cross(s1.bx - s1.ax, s1.by - s1.ay, s2.bx - s2.ax, s2.by - s2.ay) = 0

Sign(v) == IF v > 0 THEN 1 ELSE IF v < 0 THEN 0 - 1 ELSE 0

\* on which side of segment sg the point lies
Side(sg, px, py) ==
  Sign(Cross(sg.bx - sg.ax, sg.by - sg.ay, px - sg.ax, py - sg.ay))

\* the two segments share a point
Intersect(s1, s2) ==
  \/ /\ Side(s1, s2.ax, s2.ay) * Side(s1, s2.bx, s2.by) < 0
     /\ Side(s2, s1.ax, s1.ay) * Side(s2, s1.bx, s1.by) < 0
  \/ OnSeg(s2.ax, s2.ay, s1) \/ OnSeg(s2.bx, s2.by, s1)
  \/ OnSeg(s1.ax, s1.ay, s2) \/ OnSeg(s1.bx, s1.by, s2)

SegRoles(l) == { r \in {"draw1", "draw2", "draw3"} : HasSeg(l, r) }

MaxOf(set) == CHOOSE m \in set : \A j \in set : j <= m

Last == log[Len(log)]

Printed(l, msg) == \E j \in 1..Len(l) : l[j].k = "print" /\ l[j].a = msg

\* ------------------------------------------------------------------ C1
\* C1 as stated: each of the five scripts, on the path that reaches its
\* final browser.close(), has launched a browser, navigated, located
\* elements, issued pointer/click events, taken a screenshot and closed the
\* browser, in this order.
C1_AllFiveSixSteps == (status = "exited" /\ FinalClose(log)) => SixSteps(log)

\* C1 amended: the scripts other than inspect_page perform the six steps in
\* order whenever they reach their final browser.close(); test_angle_qa, whose
\* run past the canvas lookup stops at the argument-less mouse.click(), has
\* performed the first five by then; inspect_page launches, navigates,
\* locates and closes, and issues no pointer or click event and no screenshot.
C1_FourScriptsSixSteps ==
  /\ (script # "inspect_page" /\ FinalClose(log)) => SixSteps(log)
  /\ (script = "test_angle_qa" /\ status = "crashed" /\ Last.a = "TypeError")
       => (FiveSteps(log) <= Len(log) /\ Where(log, {"close"}) = {})
  /\ script = "inspect_page" => Where(log, InputKinds \cup {"shot"}) = {}
  /\ (script = "inspect_page" /\ status = "exited")
       => FirstAfter(log, {"close"},
            FirstAfter(log, {"locate"},
              FirstAfter(log, {"goto"},
                FirstAfter(log, {"launch"}, 0)))) <= Len(log)

\* a run of test_angle_measurement that went through all six steps and returned
C1_Witness ==
  /\ script = "test_angle_measurement"
  /\ status = "exited"
  /\ FinalClose(log)
  /\ SixSteps(log)

C3_ClosedExactlyOnce ==
  (status = "exited" \/ (status = "crashed" /\ Last.a # "TimeoutError")) =>
    /\ Cardinality(Where(log, {"close"})) = 1
    /\ \A j \in 1..Len(log) :
         log[j].k = "close" =>
           \A h \in (j + 1)..Len(log) : log[h].k \in {"print", "return", "exit"}

\* ------------------------------------------------------------------ C4
\* C4: test_angle_measurement returns True, and prints "Test completed
\* successfully", only if the page content read after the second line click
\* held "angle:" or the degree sign.
C4_TrueOnlyIfAngleShown ==
  (script = "test_angle_measurement"
     /\ (ret = "True" \/ Printed(log, "Test completed successfully")))
    => (locals.content.angle \/ locals.content.degree)

\* ------------------------------------------------------------------ C5
\* C5: when test_angle_qa has closed the browser, it has drawn a pair of
\* intersecting segments, a pair of non-intersecting (non-parallel) segments,
\* a pair of parallel segments, and a third line for chaining.
C5_FourPhases ==
  (script = "test_angle_qa" /\ browser = "closed") =>
    LET segs == SegRoles(log) IN
      /\ \E r1 \in segs, r2 \in segs :
           r1 # r2 /\ Intersect(Seg(log, r1), Seg(log, r2))
      /\ \E r1 \in segs, r2 \in segs :
           /\ r1 # r2
           /\ ~Parallel(Seg(log, r1), Seg(log, r2))
           /\ ~Intersect(Seg(log, r1), Seg(log, r2))
      /\ \E r1 \in segs, r2 \in segs :
           r1 # r2 /\ Parallel(Seg(log, r1), Seg(log, r2))
      /\ Cardinality(segs) >= 3

\* ------------------------------------------------------------------ C6
AngleScripts ==
  { "qa_test_angle", "test_angle_measurement", "test_angle_qa", "test_angle_simple" }

\* both lines have been drawn before log index m
BothDrawnBefore(l, m) ==
  /\ \E d \in RoleAt(l, {"draw1"}) : d < m
  /\ \E d \in RoleAt(l, {"draw2"}) : d < m

C7_LabelCheckContinues ==
  (script = "test_angle_qa" /\ Ended
     /\ Printed(log, "=== Test 2: Arc selection by clicking ===")) =>
    /\ Printed(log, "Found angle label") \/ Printed(log, "No angle label found")
    /\ \E j \in 1..Len(log) : log[j].k = "shot" /\ log[j].a = "08_after_third_line"
    /\ HasSeg(log, "draw3")
    /\ browser = "closed"

\* ------------------------------------------------------------------ C8
\* C8: in qa_test_angle the Step 6 click lies on the first drawn segment and
\* not on the second, and the Step 7 click lies on the second and not on the
\* first.
C8_ClicksPickDifferentLines ==
  (script = "qa_test_angle" /\ HasSeg(log, "draw1") /\ HasSeg(log, "draw2")) =>
    \A j \in RoleAt(log, {"select1", "select2"}) :
      LET on1 == OnSeg(log[j].x, log[j].y, Seg(log, "draw1"))
          on2 == OnSeg(log[j].x, log[j].y, Seg(log, "draw2"))
      IN  IF log[j].role = "select1" THEN on1 /\ ~on2 ELSE on2 /\ ~on1

\* ------------------------------------------------------------------ C9
IsButtonLine(e) == e.k = "print" /\ e.a \in {"text", "(error reading)"}

ButtonLines(l) == SelectSeq(l, IsButtonLine)

\* C9: inspect_page prints exactly one line per index, in index order, for
\* the first min(n, 20) buttons; a failed read gives the "(error reading)"
\* line for that index and the loop goes on; the browser is closed after the
\* loop in every case.
C9_ButtonReport ==
  script = "inspect_page" =>
    LET bl == ButtonLines(log) IN
      /\ status # "crashed"
      /\ \A j \in 1..Len(bl) : bl[j].x = j - 1
      /\ Len(bl) = 0 \/ Len(bl) <= Min(locals.n, ButtonLimit)
      /\ \A j \in 1..Len(log) :
           /\ IsButtonLine(log[j]) =>
                ((log[j].a = "(error reading)") <=> (log[j - 1].k = "caught"))
           /\ (log[j].k = "caught" /\ j < Len(log)) =>
                (IsButtonLine(log[j + 1]) /\ log[j + 1].a = "(error reading)")
      /\ browser = "closed" => Len(bl) = Min(locals.n, ButtonLimit)
      /\ status = "exited" => browser = "closed"

\* more than 20 buttons, a read failed before the last reported index, and
\* the run has finished
C9_Witness ==
  /\ script = "inspect_page"
  /\ status = "exited"
  /\ locals.n > ButtonLimit
  /\ \E j \in 1..(Len(ButtonLines(log)) - 1) : ButtonLines(log)[j].a = "(error reading)"

\* ----------------------------------------------------------------- C10
\* C10: at most one mouse.down is outstanding; a mouse.down, mouse.click,
\* tool-button click or browser.close() is issued only with the button
\* released, and no script finishes with the button held.
C10_MouseBalance ==
  /\ Held(log) \in {0, 1}
  /\ (Len(log) > 0 /\ Last.k \in {"down", "click", "tool", "close"})
       => Held(AllBut(log)) = 0
  /\ (status = "exited" \/ browser = "closed") => Held(log) = 0

\* test_angle_qa presses the button for its second line after releasing it
\* for the first
C10_Witness ==
  /\ script = "test_angle_qa"
  /\ Len(log) > 0
  /\ Last.k = "down"
  /\ Where(log, {"up"}) # {}

====
